---- MODULE Spec2Model ----
(***************************************************************************)
(* Model of the minimum-cost covering solver of planilha_processor.py:     *)
(* _mitm_min_cover, _fptas_min_cover, _min_cover and the grouped solve     *)
(* criar_juncao_sob_demanda.                                               *)
(*                                                                         *)
(* Credits are whole currency units (integers).  A tolerance epsilon is a  *)
(* pair <<num, den>>.  Rates are integer percents.  An entry is           *)
(* <<value, id>>, a solver state / result is <<sum, ids>>.                 *)
(***************************************************************************)
EXTENDS Integers, Sequences, FiniteSets, TLC

VARIABLES pc, call, values, target, eps, max_states, states, k, result,
          grupos, comissao_arg, comissao_extra, entrada_max, taxa_total,
          gi, melhores, ret, updating, tipo

vars == <<pc, call, values, target, eps, max_states, states, k, result,
          grupos, comissao_arg, comissao_extra, entrada_max, taxa_total,
          gi, melhores, ret, updating, tipo>>

solverVars == <<values, eps, max_states, states, k, result>>
juncaoVars == <<grupos, comissao_arg, comissao_extra, entrada_max, taxa_total,
                gi, melhores, ret>>
endpointVars == <<updating, tipo>>

----------------------------------------------------------------------------
(* Bounds of the model *)

MaxLen == 4          \* rows of a small group
MaxValue == 3        \* largest credit of a row of a small group
MaxTarget == 5       \* largest target tried with a small group
MaxGroups == 2       \* groups of a short group list of the grouped solve

(* Program constants *)

Inf == 1000000             \* float("inf"), above every sum of the model
ExactThreshold == 26       \* _min_cover: len(values) <= 26
DefaultEpsNum == 1         \* CODE_FPTAS_EPS default "0.01" = 1/100
DefaultEpsDen == 100
DefaultMaxStates == 5000   \* CODE_FPTAS_MAX default "5000"
MaxResults == 10           \* [:10]
BaseRate == 5              \* 0.05, in percent
DefaultExtra == 2          \* 0.02, in percent

None == <<>>
Some(x) == <<x>>

----------------------------------------------------------------------------
(* Generic helpers standing for Python built-ins *)

RECURSIVE SumSeq(_)
SumSeq(s) == IF s = <<>> THEN 0 ELSE Head(s) + SumSeq(Tail(s))

Min(a, b) == IF a <= b THEN a ELSE b

\* math.ceil(a / b) for a >= 0, b > 0
CeilDiv(a, b) == (a + b - 1) \div b

\* list.sort / sorted are stable: x, coming after the elements of an already
\* sorted list, goes after every element whose key is <= the key of x.  The
\* key of an element e is sign * e[1].  InsertPos is the number of elements
\* that stay before x, searched from the end of the list.
RECURSIVE InsertPos(_, _, _, _)
InsertPos(sorted, x, sign, p) ==
    IF p = 0 \/ sign * sorted[p][1] <= sign * x[1] THEN p
    ELSE InsertPos(sorted, x, sign, p - 1)

InsertStable(sorted, x, sign) ==
    LET p == InsertPos(sorted, x, sign, Len(sorted))
    IN  SubSeq(sorted, 1, p) \o <<x>> \o SubSeq(sorted, p + 1, Len(sorted))

RECURSIVE StableSortFrom(_, _, _, _)
StableSortFrom(acc, seq, i, sign) ==
    IF Len(acc) >= 0 /\ i <= Len(seq)
    THEN StableSortFrom(InsertStable(acc, seq[i], sign), seq, i + 1, sign)
    ELSE acc

StableSort(seq, sign) == StableSortFrom(<<>>, seq, 1, sign)

\* itertools.combinations(arr, r), in the order itertools yields them
RECURSIVE Combinations(_, _)
Combinations(arr, r) ==
    IF r = 0 THEN << <<>> >>
    ELSE IF Len(arr) < r THEN <<>>
    ELSE LET withHead == Combinations(Tail(arr), r - 1)
         IN  [i \in 1..Len(withHead) |-> <<Head(arr)>> \o withHead[i]]
             \o Combinations(Tail(arr), r)

\* bisect_left with the comparison of bisect_right
RECURSIVE BisectRightLoop(_, _, _, _)
BisectRightLoop(a, x, lo, hi) ==
    IF lo < hi
    THEN LET mid == (lo + hi) \div 2
         IN  IF a[mid + 1] <= x THEN BisectRightLoop(a, x, mid + 1, hi)
             ELSE BisectRightLoop(a, x, lo, mid)
    ELSE lo

BisectRight(a, x) == BisectRightLoop(a, x, 0, Len(a))

\* bisect.bisect_left: binary search of the 0-based insertion point of x
RECURSIVE BisectLoop(_, _, _, _)
BisectLoop(a, x, lo, hi) ==
    IF lo < hi
    THEN LET mid == (lo + hi) \div 2
         IN  IF a[mid + 1] < x THEN BisectLoop(a, x, mid + 1, hi)
             ELSE BisectLoop(a, x, lo, mid)
    ELSE lo

BisectLeft(a, x) == BisectLoop(a, x, 0, Len(a))

----------------------------------------------------------------------------
(* _mitm_min_cover *)

CombState(comb) ==
    << SumSeq([i \in 1..Len(comb) |-> comb[i][1]]),
       [i \in 1..Len(comb) |-> comb[i][2]] >>

RECURSIVE SumsFrom(_, _)
SumsFrom(arr, r) ==
    IF r > Len(arr) THEN <<>>
    ELSE LET combs == Combinations(arr, r)
         IN  [i \in 1..Len(combs) |-> CombState(combs[i])] \o SumsFrom(arr, r + 1)

all_sums(arr) == StableSort(SumsFrom(arr, 0), 1)

\* the loop body with need = sL - target
MitmCandidateSwapped(sLiL, R, R_sums, tgt, best) ==
    LET sL == sLiL[1]
        iL == sLiL[2]
        need == sL - tgt
        j == BisectLeft(R_sums, need)
    IN  IF need <= 0
        THEN IF sL < best[1] THEN <<sL, iL>> ELSE best
        ELSE IF j < Len(R)
             THEN LET s == sL + R[j + 1][1]
                  IN  IF s >= tgt /\ s < best[1]
                      THEN <<s, iL \o R[j + 1][2]>>
                      ELSE best
             ELSE best

\* body of the loop over L
MitmCandidate(sLiL, R, R_sums, tgt, best) ==
    LET sL == sLiL[1]
        iL == sLiL[2]
        need == tgt - sL
        j == BisectLeft(R_sums, need)
    IN  IF need <= 0
        THEN IF sL < best[1] THEN <<sL, iL>> ELSE best
        ELSE IF j < Len(R)
             THEN LET s == sL + R[j + 1][1]
                  IN  IF s >= tgt /\ s < best[1]
                      THEN <<s, iL \o R[j + 1][2]>>
                      ELSE best
             ELSE best

RECURSIVE MitmLoop(_, _, _, _, _, _)
MitmLoop(L, R, R_sums, tgt, i, best) ==
    IF best[1] >= 0 /\ i <= Len(L)
    THEN MitmLoop(L, R, R_sums, tgt, i + 1, MitmCandidate(L[i], R, R_sums, tgt, best))
    ELSE best

SumsOf(sts) == [i \in 1..Len(sts) |-> sts[i][1]]

mitm_min_cover(vals, tgt) ==
    LET n == Len(vals)
        m == n \div 2
        left == SubSeq(vals, 1, m)
        right == SubSeq(vals, m + 1, n)
        L == all_sums(left)
        R == all_sums(right)
    IN  MitmLoop(L, R, SumsOf(R), tgt, 1, <<Inf, <<>> >>)

----------------------------------------------------------------------------
(* _fptas_min_cover *)

EffectiveEps(e) == IF e = None \/ e[1] = 0 THEN <<DefaultEpsNum, DefaultEpsDen>> ELSE e
EffectiveMax(mx) == IF mx = 0 THEN DefaultMaxStates ELSE mx

\* the added states without the id of the entry
AddedWithoutId(sts, entry) ==
    StableSort([i \in 1..Len(sts) |-> <<sts[i][1] + entry[1], sts[i][2]>>], 1)

\* added = [(s+v, ids+[idx]) for (s, ids) in states]; added.sort(key=...)
Added(sts, entry) ==
    StableSort([i \in 1..Len(sts) |-> <<sts[i][1] + entry[1], sts[i][2] \o <<entry[2]>> >>], 1)

\* if not merged or cand[0] > merged[-1][0]: merged.append(cand)
AppendIfGreater(merged, cand) ==
    IF merged = <<>> \/ cand[1] > merged[Len(merged)][1]
    THEN Append(merged, cand) ELSE merged

\* The while loop of the merge; i and j are the 1-based read positions.
\* (Len(merged) >= 0 only makes the accumulator a value at every iteration.)
RECURSIVE MergeLoop(_, _, _, _, _)
MergeLoop(a, b, i, j, merged) ==
    IF Len(merged) >= 0 /\ (i <= Len(a) \/ j <= Len(b))
    THEN IF j > Len(b) \/ (i <= Len(a) /\ a[i][1] <= b[j][1])
         THEN MergeLoop(a, b, i + 1, j, AppendIfGreater(merged, a[i]))
         ELSE MergeLoop(a, b, i, j + 1, AppendIfGreater(merged, b[j]))
    ELSE merged

Merge(a, b) == MergeLoop(a, b, 1, 1, <<>>)

\* keep iff s > last * (1 + eps)
TrimKeepStrict(trimmed, st, e) ==
    IF trimmed = <<>> \/ st[1] * e[2] > trimmed[Len(trimmed)][1] * (e[2] + e[1])
    THEN Append(trimmed, st) ELSE trimmed

\* if not trimmed: keep; else keep iff s >= last * (1 + eps)
TrimKeep(trimmed, st, e) ==
    IF trimmed = <<>> \/ st[1] * e[2] >= trimmed[Len(trimmed)][1] * (e[2] + e[1])
    THEN Append(trimmed, st) ELSE trimmed

RECURSIVE TrimLoop(_, _, _, _)
TrimLoop(merged, e, i, trimmed) ==
    IF Len(trimmed) >= 0 /\ i <= Len(merged)
    THEN TrimLoop(merged, e, i + 1, TrimKeep(trimmed, merged[i], e))
    ELSE trimmed

Trim(merged, e) == TrimLoop(merged, e, 1, <<>>)

\* trimmed[::step]
EveryNth(seq, step) ==
    [i \in 1..CeilDiv(Len(seq), step) |-> seq[(i - 1) * step + 1]]

\* the cap with step = len(trimmed) // max_states
HardCapFloor(trimmed, mx) ==
    IF Len(trimmed) > mx /\ Len(trimmed) \div mx > 0
    THEN EveryNth(trimmed, Len(trimmed) \div mx)
    ELSE trimmed

HardCap(trimmed, mx) ==
    IF Len(trimmed) > mx
    THEN EveryNth(trimmed, CeilDiv(Len(trimmed), mx))
    ELSE trimmed

\* the update that keeps only the states with the entry
FptasUpdateAddedOnly(sts, entry, e, mx) ==
    HardCap(Trim(Added(sts, entry), e), mx)

FptasUpdate(sts, entry, e, mx) ==
    HardCap(Trim(Merge(sts, Added(sts, entry)), e), mx)

\* the final scan with s > target
RECURSIVE FptasScanStrict(_, _, _)
FptasScanStrict(sts, tgt, i) ==
    IF i > Len(sts) THEN sts[Len(sts)]
    ELSE IF sts[i][1] > tgt THEN sts[i]
    ELSE FptasScanStrict(sts, tgt, i + 1)

\* for s, ids in states: if s >= target: return; else return states[-1]
RECURSIVE FptasScan(_, _, _)
FptasScan(sts, tgt, i) ==
    IF i > Len(sts) THEN sts[Len(sts)]
    ELSE IF sts[i][1] >= tgt THEN sts[i]
    ELSE FptasScan(sts, tgt, i + 1)

InitialStates == << <<0, <<>> >> >>

RECURSIVE FptasLoop(_, _, _, _, _)
FptasLoop(sts, vals, i, e, mx) ==
    IF Len(sts) >= 0 /\ i <= Len(vals)
    THEN FptasLoop(FptasUpdate(sts, vals[i], e, mx), vals, i + 1, e, mx)
    ELSE sts

fptas_min_cover(vals, tgt, e, mx) ==
    FptasScan(FptasLoop(InitialStates, vals, 1, EffectiveEps(e), EffectiveMax(mx)), tgt, 1)

----------------------------------------------------------------------------
(* _min_cover *)

\* the dispatcher without the descending sort
min_cover_unsorted(vals, tgt) ==
    IF Len(vals) <= ExactThreshold
    THEN mitm_min_cover(vals, tgt)
    ELSE fptas_min_cover(vals, tgt, None, 0)

min_cover(vals, tgt) ==
    IF Len(vals) <= ExactThreshold
    THEN mitm_min_cover(vals, tgt)
    ELSE fptas_min_cover(StableSort(vals, -1), tgt, None, 0)

----------------------------------------------------------------------------
(* Inputs *)

\* Row filter of criar_juncao_sob_demanda: rows with credit > 0, each with
\* its 0-based position in the unfiltered group as id
RECURSIVE FilterPositive(_, _)
FilterPositive(grp, i) ==
    IF i > Len(grp) THEN <<>>
    ELSE (IF grp[i] > 0 THEN << <<grp[i], i - 1>> >> ELSE <<>>)
         \o FilterPositive(grp, i + 1)

\* the kept rows numbered by their position among the kept rows
EntryListRenumbered(grp) ==
    LET kept == FilterPositive(grp, 1)
    IN  [i \in 1..Len(kept) |-> <<kept[i][1], i - 1>>]

EntryList(grp) == FilterPositive(grp, 1)

\* credit columns of small groups
SmallGroups == UNION {[1..n -> 1..MaxValue] : n \in 0..MaxLen}

\* credit columns of groups above the exact threshold
BigLen == ExactThreshold + 1
\* BigLen rows of positive credit, sorted by descending credit
DenseGroup == [i \in 1..BigLen |-> IF i = 1 THEN 200 ELSE 1]

\* the same credits with the largest one in the last row
DenseGroupAscending == [i \in 1..BigLen |-> IF i = BigLen THEN 200 ELSE 1]

\* BigLen rows of which two have a positive credit
SparseGroup ==
    [i \in 1..BigLen |-> IF i = 1 THEN 3 ELSE IF i = BigLen THEN 2 ELSE 0]

BigGroups == { DenseGroup, DenseGroupAscending, SparseGroup }

SmallTargets == -1..MaxTarget
BigTargets == {0, 5, 210, 300}

\* the targets tried with an entry list
TargetsFor(vals) ==
    IF \E i \in 1..Len(vals) : vals[i][2] >= MaxLen THEN BigTargets ELSE SmallTargets

EpsArgs == {None, <<1, 2>>}
MaxStatesArgs == {0, 2}

NoResult == <<-1, <<>> >>

----------------------------------------------------------------------------
(* Solver calls: one call of _mitm_min_cover, _fptas_min_cover (entry by    *)
(* entry) or _min_cover on a drawn entry list and target                    *)

InitSolver ==
    /\ pc = "start"
    /\ call = "none"
    /\ \E g \in SmallGroups \cup BigGroups : values = EntryList(g)
    /\ target \in TargetsFor(values)
    /\ eps = None
    /\ max_states = 0
    /\ states = <<>>
    /\ k = 0
    /\ result = NoResult
    /\ grupos = <<>>
    /\ comissao_arg = None
    /\ comissao_extra = None
    /\ entrada_max = None
    /\ taxa_total = 0
    /\ gi = 0
    /\ melhores = <<>>
    /\ ret = None
    /\ updating = FALSE
    /\ tipo = ""

CallMitm ==
    /\ pc = "start"
    /\ call = "none"
    /\ Len(values) <= ExactThreshold
    /\ call' = "mitm"
    /\ result' = mitm_min_cover(values, target)
    /\ pc' = "done"
    /\ UNCHANGED <<values, target, eps, max_states, states, k, juncaoVars>>
    /\ UNCHANGED endpointVars

FptasBegin ==
    /\ pc = "start"
    /\ call = "none"
    /\ call' = "fptas"
    /\ eps' \in EpsArgs
    /\ max_states' \in MaxStatesArgs
    /\ states' = InitialStates
    /\ k' = 1
    /\ pc' = "fptas_loop"
    /\ UNCHANGED <<values, target, result, juncaoVars>>
    /\ UNCHANGED endpointVars

FptasStep ==
    /\ pc = "fptas_loop"
    /\ k <= Len(values)
    /\ states' = FptasUpdate(states, values[k], EffectiveEps(eps), EffectiveMax(max_states))
    /\ k' = k + 1
    /\ UNCHANGED <<pc, call, values, target, eps, max_states, result, juncaoVars>>
    /\ UNCHANGED endpointVars

FptasReturn ==
    /\ pc = "fptas_loop"
    /\ k > Len(values)
    /\ result' = FptasScan(states, target, 1)
    /\ pc' = "done"
    /\ UNCHANGED <<call, values, target, eps, max_states, states, k, juncaoVars>>
    /\ UNCHANGED endpointVars

CallMinCover ==
    /\ pc = "start"
    /\ call = "none"
    /\ call' = "min_cover"
    /\ result' = min_cover(values, target)
    /\ pc' = "done"
    /\ UNCHANGED <<values, target, eps, max_states, states, k, juncaoVars>>
    /\ UNCHANGED endpointVars

NextSolver == CallMitm \/ FptasBegin \/ FptasStep \/ FptasReturn \/ CallMinCover

SpecSolver == InitSolver /\ [][NextSolver]_vars

----------------------------------------------------------------------------
(* criar_juncao_sob_demanda.  A group is the credit column of the rows of   *)
(* one (administradora, tipo) pair; the groups come in the order of         *)
(* df.groupby and the position of a group stands for its key.  Money of an  *)
(* option is in cents: credito_total = 100 * soma, entrada = soma * rate.   *)

\* if not comissao_extra or comissao_extra < 0: comissao_extra = 0.02
EffectiveComissao(c) ==
    IF c = None \/ c[1] = 0 \/ c[1] < 0 THEN DefaultExtra ELSE c[1]

\* subset = grp.iloc[idxs_local]: the credits of the selected rows
Subset(grp, idxs) == [i \in 1..Len(idxs) |-> grp[idxs[i] + 1]]

\* the test with >= for >
ExceedsCeilingOrEqual(best_sum, taxa, emax) ==
    /\ emax # None
    /\ IF best_sum = Inf THEN emax[1] # 0
       ELSE best_sum * taxa >= best_sum * emax[1]

\* entrada_max is not None and best_sum * taxa_total > best_sum * entrada_max
\* (inf * positive = inf, inf * negative = -inf, inf * 0 = nan)
ExceedsCeiling(best_sum, taxa, emax) ==
    /\ emax # None
    /\ IF best_sum = Inf THEN emax[1] < 0
       ELSE best_sum * taxa > best_sum * emax[1]

\* _build_option, for a subset with at least one row
build_option(key, subset, taxa) ==
    [ administradora |-> key,
      credito_total  |-> 100 * SumSeq(subset),
      entrada        |-> SumSeq(subset) * taxa,
      cartas_usadas  |-> Len(subset) ]

\* One iteration of the loop over the groups: "skip" for the two continue
\* statements, "raise" for the IndexError of subset[...].iloc[0] in
\* _build_option on a subset without rows, "option" otherwise.
GroupOutcome(grp, key, tgt, taxa, emax) ==
    LET vals == EntryList(grp)
        best == min_cover(vals, tgt)
        subset == Subset(grp, best[2])
    IN  IF vals = <<>> THEN [kind |-> "skip", option |-> None]
        ELSE IF ExceedsCeiling(best[1], taxa, emax) THEN [kind |-> "skip", option |-> None]
        ELSE IF subset = <<>> THEN [kind |-> "raise", option |-> None]
        ELSE [kind |-> "option", option |-> Some(build_option(key, subset, taxa))]

\* a strict comparison of the sort keys
OptionLess(a, b) ==
    \/ a.entrada < b.entrada
    \/ a.entrada = b.entrada /\ a.credito_total < b.credito_total

\* sorted(melhores, key=lambda x: (x["entrada"], x["credito_total"]))
OptionLeq(a, b) ==
    \/ a.entrada < b.entrada
    \/ a.entrada = b.entrada /\ a.credito_total <= b.credito_total

RECURSIVE OptionPos(_, _, _)
OptionPos(sorted, x, p) ==
    IF p = 0 \/ OptionLeq(sorted[p], x) THEN p
    ELSE OptionPos(sorted, x, p - 1)

InsertOption(sorted, x) ==
    LET p == OptionPos(sorted, x, Len(sorted))
    IN  SubSeq(sorted, 1, p) \o <<x>> \o SubSeq(sorted, p + 1, Len(sorted))

RECURSIVE SortOptionsFrom(_, _, _)
SortOptionsFrom(acc, seq, i) ==
    IF Len(acc) >= 0 /\ i <= Len(seq)
    THEN SortOptionsFrom(InsertOption(acc, seq[i]), seq, i + 1)
    ELSE acc

SortOptions(seq) == SortOptionsFrom(<<>>, seq, 1)

\* [:10]
Truncate(seq) == SubSeq(seq, 1, Min(Len(seq), MaxResults))

EmptyReturn(info) ==
    [opcoes |-> <<>>, info |-> info, politica_comissao |-> None]

\* groups of the grouped solve (df.groupby yields no group without rows)
SingleRowGroups == { <<0>>, <<1>>, <<2>> }
JuncaoGroups ==
    SingleRowGroups \cup { <<0, 2>>, <<1, 1>>, <<2, 1>>, <<3, 0, 1>>, SparseGroup }

ShortGroupLists == UNION {[1..n -> JuncaoGroups] : n \in 0..MaxGroups}

\* more groups than fit in the result: single-row groups in a repeated pattern
LongGroupLists ==
    { [i \in 1..(MaxResults + 1) |-> pat[((i - 1) % Len(pat)) + 1]]
      : pat \in UNION {[1..n -> SingleRowGroups] : n \in 1..MaxGroups} }

\* the dense group alone, and before or after a single-row group
DenseGroupLists ==
    { <<DenseGroup>> } \cup { <<DenseGroup, g>> : g \in SingleRowGroups }
                       \cup { <<g, DenseGroup>> : g \in SingleRowGroups }

JuncaoTargets == {0, 1, 3, 300}
ComissaoArgs == {None, Some(0), Some(2), Some(-1)}
\* no ceiling, the default 0.47, the rate itself, zero and a negative ceiling
EntradaMaxArgs == {None, Some(47), Some(7), Some(0), Some(-1)}

InitJuncao ==
    /\ pc = "start"
    /\ call = "juncao"
    /\ grupos \in ShortGroupLists \cup LongGroupLists \cup DenseGroupLists
    /\ target \in JuncaoTargets
    /\ comissao_arg \in ComissaoArgs
    /\ comissao_extra = comissao_arg
    /\ entrada_max \in EntradaMaxArgs
    /\ taxa_total = 0
    /\ gi = 0
    /\ melhores = <<>>
    /\ ret = None
    /\ values = <<>>
    /\ eps = None
    /\ max_states = 0
    /\ states = <<>>
    /\ k = 0
    /\ result = NoResult
    /\ updating = FALSE
    /\ tipo = ""

\* lines 209-226: the rates, and the return for an empty base
JuncaoBegin ==
    /\ pc = "start"
    /\ call = "juncao"
    /\ comissao_extra' = Some(EffectiveComissao(comissao_extra))
    /\ taxa_total' = BaseRate + EffectiveComissao(comissao_extra)
    /\ IF grupos = <<>>
       THEN /\ ret' = Some(EmptyReturn("sem cartas"))
            /\ pc' = "returned"
            /\ gi' = gi
       ELSE /\ ret' = ret
            /\ pc' = "groups"
            /\ gi' = 1
    /\ UNCHANGED <<call, target, solverVars, grupos, comissao_arg, entrada_max, melhores>>
    /\ UNCHANGED endpointVars

\* lines 230-243: one iteration of the loop over the groups
JuncaoGroup ==
    /\ pc = "groups"
    /\ gi <= Len(grupos)
    /\ LET out == GroupOutcome(grupos[gi], gi, target, taxa_total, entrada_max)
       IN  /\ pc' = IF out.kind = "raise" THEN "raised" ELSE "groups"
           /\ melhores' = IF out.kind = "option"
                          THEN Append(melhores, out.option[1]) ELSE melhores
           /\ gi' = IF out.kind = "raise" THEN gi ELSE gi + 1
    /\ UNCHANGED <<call, target, solverVars, grupos, comissao_arg, comissao_extra,
                   entrada_max, taxa_total, ret>>
    /\ UNCHANGED endpointVars

\* lines 245-254: the ranking and the return value
JuncaoReturn ==
    /\ pc = "groups"
    /\ gi > Len(grupos)
    /\ ret' = IF melhores = <<>>
              THEN Some(EmptyReturn("sem juncoes"))
              ELSE Some([opcoes |-> Truncate(SortOptions(melhores)),
                         info |-> "",
                         politica_comissao |->
                             Some([base |-> BaseRate,
                                   extra_usada |-> comissao_extra[1],
                                   total |-> taxa_total])])
    /\ pc' = "returned"
    /\ UNCHANGED <<call, target, solverVars, grupos, comissao_arg, comissao_extra,
                   entrada_max, taxa_total, gi, melhores>>
    /\ UNCHANGED endpointVars

NextJuncao == JuncaoBegin \/ JuncaoGroup \/ JuncaoReturn

SpecJuncao == InitJuncao /\ [][NextJuncao]_vars

----------------------------------------------------------------------------
(* Reference notions used by the properties *)

TotalSum(vals) == SumSeq([i \in 1..Len(vals) |-> vals[i][1]])

IdsOf(vals) == {vals[i][2] : i \in 1..Len(vals)}

\* sum of the values of the entries whose id occurs in ids
SumOfIds(vals, ids) ==
    SumSeq([i \in 1..Len(vals) |->
              IF \E j \in 1..Len(ids) : ids[j] = vals[i][2] THEN vals[i][1] ELSE 0])

NoDuplicates(ids) == \A i, j \in 1..Len(ids) : ids[i] = ids[j] => i = j

\* sums of all 2^n subsets that are >= tgt
CoveringSums(vals, tgt) ==
    { s \in { SumSeq([i \in 1..Len(vals) |-> IF i \in S THEN vals[i][1] ELSE 0])
              : S \in SUBSET (1..Len(vals)) } : s >= tgt }

MinOf(S) == CHOOSE x \in S : \A y \in S : x <= y

Unreachable == <<Inf, <<>> >>

Reachable(res, tgt) == res[1] < Inf /\ res[1] >= tgt

Done(c) == pc = "done" /\ call = c

----------------------------------------------------------------------------
(* C1: exactness.  The sum returned by _mitm_min_cover is the minimum over  *)
(* all 2^n subsets of the subset sums >= target, and the result is the      *)
(* unreachable one (Inf, no ids) iff the sum of all entries is < target.    *)
C1_MitmExact ==
    Done("mitm") =>
        /\ CoveringSums(values, target) # {}
              => result[1] = MinOf(CoveringSums(values, target))
        /\ (result = Unreachable) <=> (TotalSum(values) < target)

C1_Witness ==
    /\ Done("mitm")
    /\ Len(values) = 3
    /\ result[1] < Inf
    /\ result[1] > target
    /\ target > 0
    /\ Len(result[2]) = 2

(* C2: approximation bound.  If some subset reaches the target, the sum     *)
(* returned by _fptas_min_cover is >= target and <= (1 + eps) * OPT.        *)
C2_FptasBound ==
    (Done("fptas") /\ max_states = 0 /\ CoveringSums(values, target) # {}) =>
        LET e == EffectiveEps(eps)
            opt == MinOf(CoveringSums(values, target))
        IN  /\ target <= result[1]
            /\ result[1] * e[2] <= (e[2] + e[1]) * opt

(* C3: approximate-path reachability.  If the sum of all entries is >=      *)
(* target, _fptas_min_cover returns a state whose sum is >= target.         *)
C3_FptasReaches ==
    (Done("fptas") /\ max_states = 0 /\ TotalSum(values) >= target)
        => result[1] >= target

(* C4: subset integrity.  For both solvers the returned ids are distinct,   *)
(* are ids of input entries and, when the result is reachable, the returned *)
(* sum is the sum of the values of the returned ids.                        *)
C4_SubsetIntegrity ==
    pc = "done" =>
        /\ NoDuplicates(result[2])
        /\ \A i \in 1..Len(result[2]) : result[2][i] \in IdsOf(values)
        /\ Reachable(result, target) => result[1] = SumOfIds(values, result[2])

C4_Witness ==
    /\ Done("fptas")
    /\ Reachable(result, target)
    /\ Len(result[2]) >= 2
    /\ Len(result[2]) < Len(values)

(* C7: zero or negative target.  For target <= 0 every solver returns sum 0 *)
(* with no ids.                                                             *)
C7_NonPositiveTarget ==
    (pc = "done" /\ target <= 0) => result = <<0, <<>> >>

C7_Witness ==
    /\ Done("fptas")
    /\ target <= 0
    /\ Len(values) >= 2
    /\ result = <<0, <<>> >>

\* the result of the running call's solver for another target
SolverResult(t) ==
    IF call = "mitm" THEN mitm_min_cover(values, t)
    ELSE fptas_min_cover(values, t, eps, max_states)

(* C9: monotonicity in the target.  For a fixed entry list and a fixed      *)
(* solver (_mitm_min_cover or _fptas_min_cover) and targets t1 <= t2 that   *)
(* are both reachable, the sum for t1 is <= the sum for t2.                 *)
C9_Monotone ==
    ((Done("mitm") \/ Done("fptas")) /\ Reachable(result, target)) =>
        \A t1 \in TargetsFor(values) :
            t1 < target =>
                LET r1 == SolverResult(t1)
                IN  Reachable(r1, t1) => r1[1] <= result[1]

C9_Witness ==
    /\ Done("mitm")
    /\ Reachable(result, target)
    /\ \E t1 \in TargetsFor(values) :
          /\ 0 < t1
          /\ t1 < target
          /\ Reachable(SolverResult(t1), t1)
          /\ SolverResult(t1)[1] > t1
          /\ SolverResult(t1)[1] < result[1]

(* C10: dispatcher routing.  _min_cover returns what _mitm_min_cover        *)
(* returns on the list as given when it has <= 26 entries and what          *)
(* _fptas_min_cover returns on the list sorted by descending value          *)
(* otherwise, and leaves the caller's list as it was.                       *)
C10_Dispatch ==
    [][ (pc = "start" /\ call = "none" /\ call' = "min_cover") =>
          /\ values' = values
          /\ result' = IF Len(values) <= ExactThreshold
                       THEN mitm_min_cover(values, target)
                       ELSE fptas_min_cover(StableSort(values, -1), target, None, 0) ]_vars

C10_Witness ==
    /\ Done("min_cover")
    /\ Len(values) > ExactThreshold
    /\ StableSort(values, -1) # values
    /\ result # fptas_min_cover(values, target, None, 0)

----------------------------------------------------------------------------
(* Properties of the grouped solve *)

Returned == pc = "returned" /\ ret # None

Opcoes == ret[1].opcoes

(* C5: no unusable cover is returned.  Every option of the returned list    *)
(* comes from a group whose chosen subset sums to at least the target; a    *)
(* group in which no subset reaches the target never appears as an option.  *)
C5_OptionsReachTarget ==
    Returned =>
        \A i \in 1..Len(Opcoes) :
            /\ Opcoes[i].credito_total >= 100 * target
            /\ TotalSum(EntryList(grupos[Opcoes[i].administradora])) >= target

(* C6: the grouped solve never fails on "no cover".  For every set of       *)
(* groups and every target it ends with a return value, never an exception, *)
(* and the option list is empty when no group has a cover.                  *)
C6_NeverRaises ==
    /\ pc # "raised"
    /\ (Returned /\ \A g \in 1..Len(grupos) : TotalSum(EntryList(grupos[g])) < target)
          => Opcoes = <<>>

(* C8: ranking.  The returned options are in ascending order of             *)
(* credito_total, options of equal credito_total are in group arrival       *)
(* order, and the list is the first (at most 10) of the qualifying groups'  *)
(* options in that order: the 10 smallest when more than 10 qualify.        *)
C8_Ranking ==
    Returned =>
        /\ \A i, j \in 1..Len(Opcoes) :
              i < j =>
                 \/ Opcoes[i].credito_total < Opcoes[j].credito_total
                 \/ /\ Opcoes[i].credito_total = Opcoes[j].credito_total
                    /\ Opcoes[i].administradora < Opcoes[j].administradora
        /\ Len(Opcoes) = Min(Len(melhores), MaxResults)
        /\ \A i \in 1..Len(Opcoes) : \E m \in 1..Len(melhores) : melhores[m] = Opcoes[i]
        /\ \A m \in 1..Len(melhores) :
              (\A i \in 1..Len(Opcoes) : Opcoes[i] # melhores[m])
                 => \A i \in 1..Len(Opcoes) :
                       Opcoes[i].credito_total <= melhores[m].credito_total

C8_Witness ==
    /\ Returned
    /\ Len(melhores) > MaxResults
    /\ Len(Opcoes) = MaxResults
    /\ melhores[1].credito_total > melhores[2].credito_total
    /\ Opcoes[1].credito_total = Opcoes[2].credito_total
    /\ Opcoes[1].credito_total < Opcoes[MaxResults].credito_total

----------------------------------------------------------------------------
\* a step of the loop over the groups that processes group gi
GroupStep == pc = "groups" /\ gi <= Len(grupos) /\ (gi' # gi \/ pc' # pc)

----------------------------------------------------------------------------
\* what the loop over the groups makes of group g alone
SoloOutcome(g) == GroupOutcome(grupos[g], g, target, taxa_total, entrada_max)

\* a group with a subset that reaches the target and passes the ceiling
HasCover(g) ==
    /\ SoloOutcome(g).kind = "option"
    /\ TotalSum(EntryList(grupos[g])) >= target

\* melhores when the groups are processed in the given order of positions:
\* None when some group raises
RECURSIVE OptionsInOrder(_, _, _)
OptionsInOrder(order, i, acc) ==
    IF Len(acc) >= 0 /\ i <= Len(order)
    THEN LET out == SoloOutcome(order[i])
         IN  IF out.kind = "raise" THEN None
             ELSE OptionsInOrder(order, i + 1,
                                 IF out.kind = "option"
                                 THEN Append(acc, out.option[1]) ELSE acc)
    ELSE Some(acc)

ReverseOrder == [i \in 1..Len(grupos) |-> Len(grupos) + 1 - i]

SetOf(seq) == {seq[i] : i \in 1..Len(seq)}

(* C12: group independence.  Whatever the other groups are (unreachable or  *)
(* without positive rows included), when the call ends every group that has *)
(* a cover has contributed the option it yields alone, and, when no option  *)
(* is cut off by the limit of 10, the returned list holds that option and   *)
(* is the same set of options as when the groups are processed in the       *)
(* reverse order.                                                           *)
C12_GroupIndependence ==
    (pc \in {"returned", "raised"}) =>
        \A g \in 1..Len(grupos) :
            HasCover(g) =>
                /\ ret # None
                /\ SoloOutcome(g).option[1] \in SetOf(melhores)
                /\ Len(melhores) <= MaxResults =>
                      /\ SoloOutcome(g).option[1] \in SetOf(Opcoes)
                      /\ OptionsInOrder(ReverseOrder, 1, <<>>) # None
                      /\ SetOf(Opcoes) =
                            SetOf(Truncate(SortOptions(
                                OptionsInOrder(ReverseOrder, 1, <<>>)[1])))

----------------------------------------------------------------------------
\* the entries processed by the running call of _fptas_min_cover
Processed == SubSeq(values, 1, k - 1)

(* C13: frontier invariant.  After the initialisation and after every       *)
(* per-entry update of _fptas_min_cover the frontier is strictly ascending  *)
(* by sum, its first state is (0, no ids), and every state is the sum of a  *)
(* duplicate-free set of ids of entries processed so far.                   *)
C13_FrontierInvariant ==
    (call = "fptas" /\ pc \in {"fptas_loop", "done"}) =>
        /\ states # <<>>
        /\ states[1] = <<0, <<>> >>
        /\ \A i \in 1..(Len(states) - 1) : states[i][1] < states[i + 1][1]
        /\ \A i \in 1..Len(states) :
              /\ NoDuplicates(states[i][2])
              /\ SetOf(states[i][2]) \subseteq IdsOf(Processed)
              /\ states[i][1] = SumOfIds(Processed, states[i][2])

\* a frontier after three entries, with a state of two ids, from which
\* merging or trimming has removed states
C13_Witness ==
    /\ call = "fptas"
    /\ pc = "fptas_loop"
    /\ k = 4
    /\ Len(states) \in 3..6
    /\ \E i \in 1..Len(states) : Len(states[i][2]) = 2

----------------------------------------------------------------------------
\* a per-entry step of the running call of _fptas_min_cover
FptasEntryStep == call = "fptas" /\ pc = "fptas_loop" /\ k' = k + 1

(* C14: trimming band.  In a per-entry step in which the hard cap does not  *)
(* trigger, the new frontier is a part of the merged list, every merged     *)
(* state that was dropped has a kept state kp with                          *)
(* kp <= dropped < (1 + eps) * kp, and consecutive kept states a < b with   *)
(* a > 0 satisfy b >= (1 + eps) * a.                                        *)
C14_TrimBand ==
    [][ FptasEntryStep =>
          LET e == EffectiveEps(eps)
              merged == Merge(states, Added(states, values[k]))
          IN  Len(Trim(merged, e)) <= EffectiveMax(max_states) =>
                /\ SetOf(states') \subseteq SetOf(merged)
                /\ \A i \in 1..Len(merged) :
                      merged[i] \notin SetOf(states') =>
                          \E j \in 1..Len(states') :
                              /\ states'[j][1] <= merged[i][1]
                              /\ merged[i][1] * e[2] < (e[2] + e[1]) * states'[j][1]
                /\ \A j \in 1..(Len(states') - 1) :
                      states'[j][1] > 0 =>
                          states'[j + 1][1] * e[2] >= (e[2] + e[1]) * states'[j][1] ]_vars

\* a frontier, never capped, that lacks a subset sum of the processed
\* entries and holds two consecutive positive sums
C14_Witness ==
    /\ call = "fptas"
    /\ pc = "fptas_loop"
    /\ max_states = 0
    /\ k >= 3
    /\ \E x \in CoveringSums(Processed, 0) : \A i \in 1..Len(states) : states[i][1] # x
    /\ \E j \in 1..(Len(states) - 1) : states[j][1] > 0

----------------------------------------------------------------------------
(* C15: hard cap.  After every per-entry update of _fptas_min_cover the     *)
(* frontier holds at most max_states states: a trimmed list longer than     *)
(* max_states is replaced by its every step-th element from the first on,   *)
(* step = ceil(size / max_states), and a shorter one is kept as it is.      *)
C15_HardCap ==
    [][ FptasEntryStep =>
          LET mx == EffectiveMax(max_states)
              trimmed == Trim(Merge(states, Added(states, values[k])), EffectiveEps(eps))
              step == CeilDiv(Len(trimmed), mx)
          IN  /\ Len(states') <= mx
              /\ IF Len(trimmed) > mx
                 THEN /\ Len(states') = CeilDiv(Len(trimmed), step)
                      /\ \A i \in 1..Len(states') :
                            states'[i] = trimmed[(i - 1) * step + 1]
                 ELSE states' = trimmed ]_vars

\* two entries of credit >= 1 processed with the default tolerance leave at
\* least three states after trimming: a frontier of two has been capped
C15_Witness ==
    /\ call = "fptas"
    /\ pc = "fptas_loop"
    /\ eps = None
    /\ max_states = 2
    /\ k >= 3
    /\ Len(states) = 2
    /\ states[2][1] > 0

----------------------------------------------------------------------------
(* The endpoints of main.py that call the generator                         *)
(* criar_juncao_sob_demanda: /criar-juncao and /criar-juncao-formatado.     *)
(* grupos stands for the groups of the base that match tipo.                *)

\* melhores after the loop over the groups; None when a group raises
RECURSIVE CollectOptions(_, _, _, _, _, _)
CollectOptions(grps, tgt, taxa, emax, i, acc) ==
    IF Len(acc) >= 0 /\ i <= Len(grps)
    THEN LET out == GroupOutcome(grps[i], i, tgt, taxa, emax)
         IN  IF out.kind = "raise" THEN None
             ELSE CollectOptions(grps, tgt, taxa, emax, i + 1,
                                 IF out.kind = "option"
                                 THEN Append(acc, out.option[1]) ELSE acc)
    ELSE Some(acc)

\* the value criar_juncao_sob_demanda returns; None when it raises
criar_juncao_sob_demanda(grps, tgt, emax, c) ==
    LET extra == EffectiveComissao(c)
        taxa == BaseRate + extra
        m == CollectOptions(grps, tgt, taxa, emax, 1, <<>>)
    IN  IF grps = <<>> THEN Some(EmptyReturn("sem cartas"))
        ELSE IF m = None THEN None
        ELSE IF m[1] = <<>> THEN Some(EmptyReturn("sem juncoes"))
        ELSE Some([opcoes |-> Truncate(SortOptions(m[1])),
                   info |-> "",
                   politica_comissao |->
                       Some([base |-> BaseRate, extra_usada |-> extra, total |-> taxa])])

\* parameters of criar_juncao_sob_demanda
GeneratorParams == {"tipo", "credito_desejado", "entrada_max", "comissao_extra", "prefix"}

\* keywords the endpoints pass to it
EndpointKwargs ==
    {"tipo", "credito_desejado", "entrada_max", "comissao_extra", "prefix", "return_private"}

\* A call with keywords: Python raises TypeError for a keyword that is no
\* parameter of the function.  None stands for any exception.
CallGenerator(kwargs, grps, tgt, emax, c) ==
    IF kwargs \subseteq GeneratorParams
    THEN criar_juncao_sob_demanda(grps, tgt, emax, c)
    ELSE None

FormatLimit == 3      \* opcoes[:3]
ExampleCount == 3     \* len(exemplos)

Reply(kind, count, opcoes, resultado) ==
    [kind |-> kind, count |-> count, opcoes |-> opcoes, resultado |-> resultado]

\* _normalize_option_to_formatter on an option of the generator
NormalizeOption(opt) ==
    [ administradora |-> opt.administradora,
      credito_total  |-> opt.credito_total,
      entrada_total  |-> opt.entrada ]

FirstOptions(opcoes) ==
    [i \in 1..Min(Len(opcoes), FormatLimit) |-> NormalizeOption(opcoes[i])]

\* bases of the endpoint calls: no group, one group, two groups of which
\* one has rows without credit, and more groups than are formatted
EndpointBases ==
    { <<>>, << <<2>> >>, << <<1>>, <<3, 0, 1>> >>,
      << <<2>>, <<1>>, <<3>>, <<1, 1>> >> }

TipoArgs == {"", "imovel"}

InitEndpoint ==
    /\ pc = "start"
    /\ call \in {"criar_juncao", "criar_juncao_formatado"}
    /\ updating \in BOOLEAN
    /\ tipo \in TipoArgs
    /\ grupos \in EndpointBases
    /\ target \in JuncaoTargets
    /\ comissao_arg \in ComissaoArgs
    /\ comissao_extra = comissao_arg
    /\ entrada_max \in EntradaMaxArgs
    /\ taxa_total = 0
    /\ gi = 0
    /\ melhores = <<>>
    /\ ret = None
    /\ values = <<>>
    /\ eps = None
    /\ max_states = 0
    /\ states = <<>>
    /\ k = 0
    /\ result = NoResult

\* POST /criar-juncao
CriarJuncao ==
    /\ pc = "start"
    /\ call = "criar_juncao"
    /\ ret' = Some(
          IF updating THEN Reply("erro", 0, <<>>, None)
          ELSE IF comissao_arg = None THEN Reply("comissao_requerida", 0, <<>>, None)
          ELSE LET resultado == CallGenerator(EndpointKwargs, grupos, target,
                                              entrada_max, comissao_arg)
               IN  IF resultado = None THEN Reply("erro", 0, <<>>, None)
                   ELSE Reply("resultado", Len(resultado[1].opcoes),
                              resultado[1].opcoes, resultado))
    /\ pc' = "replied"
    /\ UNCHANGED <<call, target, solverVars, grupos, comissao_arg, comissao_extra,
                   entrada_max, taxa_total, gi, melhores, endpointVars>>

\* POST /criar-juncao-formatado; a payload without comissao_extra gets 0.02
\* (comissao_arg is the value after payload.get)
CriarJuncaoFormatado ==
    /\ pc = "start"
    /\ call = "criar_juncao_formatado"
    /\ ret' = Some(
          IF updating THEN Reply("manutencao", 0, <<>>, None)
          ELSE LET resultado == CallGenerator(EndpointKwargs, grupos, target,
                                              entrada_max, comissao_arg)
               IN  IF resultado = None THEN Reply("exemplos", ExampleCount, <<>>, None)
                   ELSE IF FirstOptions(resultado[1].opcoes) = <<>>
                        THEN Reply("sem_opcoes", 0, <<>>, None)
                        ELSE Reply("gerador", Len(FirstOptions(resultado[1].opcoes)),
                                   FirstOptions(resultado[1].opcoes), None))
    /\ pc' = "replied"
    /\ UNCHANGED <<call, target, solverVars, grupos, comissao_arg, comissao_extra,
                   entrada_max, taxa_total, gi, melhores, endpointVars>>

NextEndpoint == CriarJuncao \/ CriarJuncaoFormatado

SpecEndpoint == InitEndpoint /\ [][NextEndpoint]_vars

\* what the generator returns for the request, called with its own parameters
Generated == criar_juncao_sob_demanda(grupos, target, entrada_max, comissao_arg)

(* C16: the real generator is used.  For a request with tipo and            *)
(* credito_desejado for which the generator has at least one option,        *)
(* /criar-juncao-formatado replies with the generator's first up-to-three   *)
(* options and their number as count; it replies with the examples only     *)
(* when the generator itself raises; and /criar-juncao, given a commission, *)
(* returns the generator's result when the generator returns one.           *)
C16_RealGenerator ==
    (pc = "replied" /\ ~updating) =>
        /\ (call = "criar_juncao_formatado" /\ tipo # "" /\ target # 0
                /\ Generated # None /\ Generated[1].opcoes # <<>>) =>
              /\ ret[1].kind = "gerador"
              /\ ret[1].count = Min(Len(Generated[1].opcoes), FormatLimit)
              /\ ret[1].opcoes = FirstOptions(Generated[1].opcoes)
        /\ (call = "criar_juncao_formatado" /\ ret[1].kind = "exemplos") =>
              Generated = None
        /\ (call = "criar_juncao" /\ comissao_arg # None /\ comissao_arg[1] >= 0
                /\ Generated # None) =>
              /\ ret[1].kind = "resultado"
              /\ ret[1].resultado = Generated

----------------------------------------------------------------------------
\* the advertised range of the consultant commission, 0.00 to 0.10
MaxComissao == 10

(* C17: commission policy.  For a commission c in 0.00..0.10 given to       *)
(* criar_juncao_sob_demanda the rate applied is 0.05 + c, the entry of      *)
(* every option is its credit times that rate and politica_comissao reports *)
(* extra_usada = c; the 0.02 default is used only when no commission is     *)
(* given or it is negative.                                                 *)
C17_CommissionPolicy ==
    (call = "juncao" /\ pc # "start") =>
        /\ (comissao_arg # None /\ comissao_arg[1] \in 0..MaxComissao) =>
              /\ taxa_total = BaseRate + comissao_arg[1]
              /\ \A m \in 1..Len(melhores) :
                    100 * melhores[m].entrada =
                        melhores[m].credito_total * (BaseRate + comissao_arg[1])
              /\ (Returned /\ ret[1].politica_comissao # None) =>
                    /\ ret[1].politica_comissao[1].extra_usada = comissao_arg[1]
                    /\ ret[1].politica_comissao[1].total = BaseRate + comissao_arg[1]
        /\ (comissao_extra = Some(DefaultExtra) /\ comissao_arg # Some(DefaultExtra)) =>
              (comissao_arg = None \/ comissao_arg[1] < 0)

----------------------------------------------------------------------------
\* the groups the loop has gone through without raising
Passed == 1..Min(gi - 1, Len(grupos))

\* the sum the solver returns for group g
BestSum(g) == min_cover(EntryList(grupos[g]), target)[1]

\* group g has positive rows and was gone through without adding an option:
\* the entrada_max check has excluded it
ExcludedByCeiling(g) ==
    /\ g \in Passed
    /\ EntryList(grupos[g]) # <<>>
    /\ \A m \in 1..Len(melhores) : melhores[m].administradora # g

OverCeiling == entrada_max # None /\ taxa_total > entrada_max[1]

(* C18 as stated: a group whose solver sum is positive and finite is        *)
(* excluded by the entrada_max check iff taxa_total > entrada_max, and a    *)
(* group whose solver sum is 0 or the infinite sentinel is never excluded.  *)
C18_CeilingAsStated ==
    (call = "juncao" /\ pc # "start") =>
        \A g \in Passed :
            LET best_sum == BestSum(g)
            IN  EntryList(grupos[g]) # <<>> =>
                    /\ (best_sum > 0 /\ best_sum < Inf) =>
                          (ExcludedByCeiling(g) <=> OverCeiling)
                    /\ (best_sum = 0 \/ best_sum = Inf) => ~ExcludedByCeiling(g)

(* C18, amended: a group whose solver sum is positive and finite is         *)
(* excluded by the entrada_max check iff taxa_total > entrada_max, a        *)
(* condition that is the same for all groups of a call; a group whose       *)
(* solver sum is 0 is never excluded; a group whose solver sum is the       *)
(* infinite sentinel is excluded iff entrada_max is negative.               *)
C18_Ceiling ==
    (call = "juncao" /\ pc # "start") =>
        \A g \in Passed :
            LET best_sum == BestSum(g)
            IN  EntryList(grupos[g]) # <<>> =>
                    /\ (best_sum > 0 /\ best_sum < Inf) =>
                          (ExcludedByCeiling(g) <=> OverCeiling)
                    /\ best_sum = 0 => ~ExcludedByCeiling(g)
                    /\ best_sum = Inf =>
                          (ExcludedByCeiling(g) <=>
                              (entrada_max # None /\ entrada_max[1] < 0))

\* a call with a negative ceiling that has excluded a group without a cover
\* and a group with one
C18_Witness ==
    /\ Returned
    /\ entrada_max # None
    /\ entrada_max[1] < 0
    /\ \E g \in Passed : ExcludedByCeiling(g) /\ BestSum(g) = Inf
    /\ \E g \in Passed :
          ExcludedByCeiling(g) /\ BestSum(g) > 0 /\ BestSum(g) < Inf

====
